---- MODULE Spec2Model ----
(***************************************************************************)
(* AxiaMTL: the paragraph translation pipeline of translate.py,            *)
(* version/translate v1.1.py and backup/translate_file.py.                 *)
(*                                                                         *)
(* Text is a sequence of characters.  A character is one of the class      *)
(* representatives below: the regular expressions and string methods of    *)
(* the source only distinguish characters by these classes.                *)
(***************************************************************************)
EXTENDS Integers, Sequences, FiniteSets, TLC

\* ------------------------------------------------------------ characters
KANA   == "KANA"     \* one character of [ぁ-んァ-ン一-龯]
HANGUL == "HANGUL"   \* one character of [가-힣]
LATIN  == "LATIN"    \* one character of [a-zA-Z]
DIGIT  == "DIGIT"    \* one character of [0-9]: \w, but of no script class
DOT    == "DOT"      \* "."
MARU   == "MARU"     \* "。"
QUOTE  == "QUOTE"    \* one of "「『（〈《"
SP     == "SP"       \* " "
NL     == "NL"       \* "\n"
DASH   == "DASH"     \* "-"
COLON  == "COLON"    \* ":" (stands for every one of \ / : * ? " < > |)
TXT    == "TXT"      \* the four characters ".txt"
PRETXT == "PRETXT"   \* the eight characters ".pre.txt"
TGT    == "TGT"      \* "." and the target language code, as in ".en"
TEMP   == "TEMP"     \* the four characters "TEMP"
UNTITLED == "UNTITLED"  \* the eight characters "Untitled"
MARKER == "MARKER"   \* the characters "[Translation failed]"

Whitespace   == {SP, NL}                        \* str.strip(), \s
WordChars    == {KANA, HANGUL, LATIN, DIGIT}    \* \w
OpenQuotes   == {QUOTE}                         \* [「『（〈《]
Periods      == {DOT, MARU}                     \* [.…。]
SentenceEnd  == {MARU}                          \* [。！？]
IllegalChars == {COLON}                         \* [\\/:*?"<>|]

\* ------------------------------------------------------ string methods
RECURSIVE lstrip(_)
lstrip(s) ==
    IF s # <<>> /\ Head(s) \in Whitespace THEN lstrip(Tail(s)) ELSE s

RECURSIVE rstrip(_)
rstrip(s) ==
    IF s # <<>> /\ s[Len(s)] \in Whitespace
    THEN rstrip(SubSeq(s, 1, Len(s) - 1)) ELSE s

\* str.strip()
strip(s) == rstrip(lstrip(s))

AllIn(s, class) == \A k \in 1..Len(s) : s[k] \in class

\* sep.join(parts)
RECURSIVE join(_, _)
join(sep, parts) ==
    IF parts = <<>> THEN <<>>
    ELSE IF Len(parts) = 1 THEN parts[1]
    ELSE parts[1] \o sep \o join(sep, Tail(parts))

\* s.split(c) for a one-character separator c: always at least one piece
RECURSIVE split_acc(_, _, _)
split_acc(s, c, cur) ==
    IF s = <<>> THEN <<cur>>
    ELSE IF Head(s) = c THEN <<cur>> \o split_acc(Tail(s), c, <<>>)
    ELSE split_acc(Tail(s), c, Append(cur, Head(s)))

split(s, c) == split_acc(s, c, <<>>)

RECURSIVE Flatten(_)
Flatten(xs) == IF xs = <<>> THEN <<>> ELSE Head(xs) \o Flatten(Tail(xs))

\* s.replace(old, new) for a one-character old
RECURSIVE replace(_, _, _)
replace(s, old, new) ==
    IF s = <<>> THEN <<>>
    ELSE (IF Head(s) = old THEN new ELSE <<Head(s)>>) \o replace(Tail(s), old, new)

\* ------------------------------------------------------------ the run
Variants == {"translate", "v11", "backup"}
    \* translate.py, version/translate v1.1.py, backup/translate_file.py
JAPANESE == "ja"
KOREAN   == "ko"
ENGLISH  == "en"
AUTO     == "auto"
Langs    == {JAPANESE, KOREAN, ENGLISH, AUTO}

VARIABLES
    variant,        \* which script runs
    mode,           \* "dir" (--dir) or "single" (--input)
    src_lang,       \* the source language of --language
    splitter_ok,    \* whether the kss / nltk sentence splitter works in this run
    tgt_lang,       \* the target language of --language
    model,          \* v1.1 --model: "pentago" or "vllm"
    files,          \* the input files, in the order main visits them
    fs,             \* the files written so far: name -> content
    pc,             \* where the run is
    error,          \* the exception that ended the run, or "none"
    fidx,           \* main: index of the current input file
    title,          \* main: the title the first translate_file call returned
    final_filename, \* main: the output file name
    return_translated_title,  \* translate_file: its flag
    output_path,    \* translate_file: its destination
    translated_title,         \* translate_file: the resolved title
    raw_paragraphs, \* translate_file: the paragraphs of the input
    i,              \* translate_file: index of the current paragraph
    merged_para,    \* translate_file: the text sent for the current paragraph
    attempt,        \* translate_file: the retry counter
    result_bound,   \* backup translate_file: whether local `result` is assigned
    title_calls,    \* history: title translation calls made for the current file
    title_result,   \* history: what the title call main asked for came back with
    sent,           \* history: the paragraphs sent to the translator, with the text sent
    written,        \* history: the out.write calls on the current output file
    cur_calls,      \* history: translator calls made for the current paragraph
    cur_failed,     \* history: those that raised or returned nothing usable
    print_errors,   \* history: print calls that raised
    sleeps,         \* history: asyncio.sleep(0.5) calls of the current paragraph
    out_buffer,     \* translate_file: text `out` has accepted and not yet put on disk
    prompts         \* history: the prompts VLLMTranslator.translate built, with their text

vars == <<variant, mode, src_lang, splitter_ok, tgt_lang, model, prompts, out_buffer, files, fs, pc, error, fidx, title,
          final_filename, return_translated_title, output_path, translated_title,
          raw_paragraphs, i, merged_para, attempt, result_bound, title_calls,
          title_result, sent, written, cur_calls, cur_failed, print_errors, sleeps>>

\* ----------------------------------------------------------- segmenter
\* re.search(r'[ぁ-んァ-ン一-龯가-힣a-zA-Z]', text) in translate.py,
\* re.search(r'[ぁ-んァ-ン一-龯가-힣]', text) in the other two
\* (mutant) any word character counts, digits included
MeaningfulWordChars == WordChars

MeaningfulChars ==
    IF variant = "translate" THEN {KANA, HANGUL, LATIN} ELSE {KANA, HANGUL}

is_meaningful(text) == \E k \in 1..Len(text) : text[k] \in MeaningfulChars

\* the three re.sub calls replace the whole text or nothing (^...$, no flags)
clean_paragraph(text) ==
    LET t0 == strip(text)
        t1 == IF AllIn(t0, OpenQuotes) THEN <<>> ELSE t0
        t2 == IF t1 # <<>> /\ AllIn(t1, Periods) THEN <<>> ELSE t1
        t3 == IF t2 # <<>> /\ (\A k \in 1..Len(t2) : t2[k] \notin WordChars)
              THEN <<>> ELSE t2
    IN  strip(t3)

\* re.split(r"\n\s*\n", content): a separator runs from a newline to the last
\* newline of the whitespace run that follows it
RECURSIVE LastNL(_, _, _)
LastNL(s, k, best) ==
    \* the index of the last NL of the whitespace run s[k..], or best when none
    IF k > Len(s) \/ s[k] \notin Whitespace THEN best
    ELSE LastNL(s, k + 1, IF s[k] = NL THEN k ELSE best)

RECURSIVE split_blank_lines(_, _)
split_blank_lines(s, cur) ==
    IF s = <<>> THEN <<cur>>
    ELSE IF Head(s) = NL /\ LastNL(s, 2, 0) > 0
         THEN <<cur>> \o split_blank_lines(SubSeq(s, LastNL(s, 2, 0) + 1, Len(s)), <<>>)
         ELSE split_blank_lines(Tail(s), Append(cur, Head(s)))

paragraphs_of(content) == split_blank_lines(content, <<>>)

\* [s for s in xs if s.strip()]
NonBlank(xs) == SelectSeq(xs, LAMBDA x : strip(x) # <<>>)

\* re.split(r'(?<=[。！？])\s*', text): cut after every sentence end, and drop
\* the whitespace that follows it
RECURSIVE split_sentence_end(_, _)
split_sentence_end(s, cur) ==
    IF s = <<>> THEN <<cur>>
    ELSE IF Head(s) \in SentenceEnd
         THEN <<Append(cur, Head(s))>> \o split_sentence_end(lstrip(Tail(s)), <<>>)
         ELSE split_sentence_end(Tail(s), Append(cur, Head(s)))

\* v1.1: text.split("。"), each piece stripped, kept when non-empty, "。" put back
RECURSIVE maru_chunks(_)
maru_chunks(pieces) ==
    IF pieces = <<>> THEN <<>>
    ELSE (IF strip(Head(pieces)) # <<>> THEN <<Append(strip(Head(pieces)), MARU)>> ELSE <<>>)
         \o maru_chunks(Tail(pieces))

\* kss.split_sentences / nltk sent_tokenize when they work: the libraries are not
\* part of the repository; they cut after a period that ends a sentence
RECURSIVE library_split(_, _)
library_split(s, cur) ==
    IF s = <<>> THEN (IF cur = <<>> THEN <<>> ELSE <<cur>>)
    ELSE IF Head(s) \in Periods
         THEN <<Append(cur, Head(s))>> \o library_split(lstrip(Tail(s)), <<>>)
         ELSE library_split(Tail(s), Append(cur, Head(s)))

Returned(v) == [raised |-> FALSE, value |-> v]
Raised      == [raised |-> TRUE, value |-> <<>>]

\* split_text_by_sentence(text, lang): the list it returns, or Raised
split_text_by_sentence(text, lang) ==
    LET t == strip(text) IN
    IF variant = "translate" THEN
        CASE lang = JAPANESE -> Returned(NonBlank(split_sentence_end(t, <<>>)))
          [] lang = KOREAN   -> IF splitter_ok THEN Returned(library_split(t, <<>>)) ELSE Raised
          [] lang = ENGLISH  -> Raised      \* nltk is never imported: NameError
          [] OTHER           -> Returned(<<t>>)
    ELSE
        CASE lang = JAPANESE -> Returned(maru_chunks(split(t, MARU)))
          [] lang \in {KOREAN, ENGLISH} ->
                IF splitter_ok THEN Returned(library_split(t, <<>>)) ELSE Returned(<<t>>)
          [] OTHER           -> Returned(<<t>>)

RECURSIVE strip_each(_)
strip_each(xs) == IF xs = <<>> THEN <<>> ELSE <<strip(Head(xs))>> \o strip_each(Tail(xs))

\* " ".join(s.strip() for s in split_sentences if is_meaningful(s))
merge_sentences(split_sentences) ==
    join(<<SP>>, strip_each(SelectSeq(split_sentences, is_meaningful)))

\* the lines the preview file gets for one paragraph: s.strip() + "\n" per sentence
RECURSIVE prep_lines(_)
prep_lines(xs) ==
    IF xs = <<>> THEN <<>> ELSE strip(Head(xs)) \o <<NL>> \o prep_lines(Tail(xs))

\* ------------------------------------------------------ title and names
Contains(s, c) == \E k \in 1..Len(s) : s[k] = c

\* (mutant) only the token after the first "-": stem.split("-")[1]
title_part_second_token(stem) ==
    IF Contains(stem, DASH) THEN split(stem, DASH)[2] ELSE stem

\* "-".join(stem.split("-")[1:]) if "-" in stem else stem
title_part_of(stem) ==
    IF Contains(stem, DASH) THEN join(<<DASH>>, Tail(split(stem, DASH))) ELSE stem

\* stem.split("-")[0] if "-" in stem else "0000"
prefix_of(stem) ==
    IF Contains(stem, DASH) THEN split(stem, DASH)[1] ELSE <<DIGIT, DIGIT, DIGIT, DIGIT>>

\* (mutant) a character class that misses ":"
sanitize_filename_keeps_colon(name) == strip(name)

\* re.sub(r'[\\/:*?"<>|]', '', name).strip()
sanitize_filename(name) == strip(SelectSeq(name, LAMBDA c : c \notin IllegalChars))

\* f"{prefix}-{sanitize_filename(title)}.txt"
final_filename_of(stem, t) == prefix_of(stem) \o <<DASH>> \o sanitize_filename(t) \o <<TXT>>

\* translated_title = title_part or "Untitled"
title_fallback(title_part) == IF title_part # <<>> THEN title_part ELSE <<UNTITLED>>

\* ----------------------------------------------------------- translator
\* What one translator.translate call can do: raise, or return a str, an object
\* with a translatedText field, one without it, or something that is neither.
Str(t)  == [kind |-> "str", text |-> t]
Dict(t) == [kind |-> "dict", text |-> t]
Raise   == [kind |-> "raise", text |-> <<>>]
DictMissing == [kind |-> "dict_missing", text |-> <<>>]
NoneResult  == [kind |-> "none", text |-> <<>>]
NotCalled   == [kind |-> "not_called", text |-> <<>>]

\* result if isinstance(result, str) else result.get("translatedText", "")
\* (an exception from the call or from .get comes out as Raised)
translated_of(result) ==
    CASE result.kind \in {"str", "dict"} -> Returned(result.text)
      [] result.kind = "dict_missing"    -> Returned(<<>>)
      [] OTHER                           -> Raised

\* backup: if not result or "translatedText" not in result: raise ValueError;
\* translated = result["translatedText"]
backup_translated_of(result) ==
    IF result.kind = "dict" THEN Returned(result.text) ELSE Raised

\* (mutant) the failure block cut as the progress line cuts it, cleaned_para[:30]
failure_block_cut(cleaned_para) ==
    <<MARKER, NL>> \o SubSeq(cleaned_para, 1, 1) \o <<NL, NL>>

\* the failure block of translate.py and v1.1
failure_block(cleaned_para) == <<MARKER, NL>> \o cleaned_para \o <<NL, NL>>

\* the block of a translation
translation_block(translated) ==
    IF variant = "backup" THEN translated \o <<NL, NL>>
    ELSE strip(translated) \o <<NL, NL>>

\* (mutant) a write that lands at the front of the file
appended_front(content, s) == s \o content

\* out.write(s) on a file whose content is `content`
appended(content, s) == content \o s

\* the file system with `name` holding `content`
\* str.upper() on a language code
upper(code) ==
    CASE code = "ja" -> "JA" [] code = "ko" -> "KO" [] code = "en" -> "EN"
      [] code = "auto" -> "AUTO"

\* VLLMTranslator.translate: the prompt it posts (vllm_translator.py 12-23)
vllm_prompt(text, src, tgt) ==
    <<"You are a professional ", upper(src), "->", upper(tgt), " translator.",
      "Translate the following ", upper(src), " text into natural, fluent ",
      upper(tgt), ".", "raw: ">> \o text \o <<"translation:">>

\* translator.translate(text) as translate_file calls it: one argument, so the
\* signature's defaults src_lang="ja", tgt_lang="en" apply
translator_translate(text) == vllm_prompt(text, "ja", "en")

\* the prompts on record after a translator call with `text`
prompted(text, called) ==
    IF model = "vllm" /\ called
    THEN prompts \cup {[text |-> text, prompt |-> translator_translate(text)]}
    ELSE prompts

\* out.write(s) on a file opened with open(path, "w"): the text goes to the
\* stream's buffer, which reaches the disk when it fills up or at close; the
\* outputs of the documents here are far smaller than the buffer
buffered(buffer, s) == buffer \o s

put(f, name, content) ==
    [n \in (DOMAIN f) \cup {name} |-> IF n = name THEN content ELSE f[n]]

\* ------------------------------------------------------------- inputs
MaxParas == 2         \* paragraphs in one input file
MaxPrintErrors == 1   \* print calls that raise in one run

\* the raw paragraphs the documents are made of
ParaSet ==
    { <<SP, KANA, MARU, KANA>>,    \* two Japanese sentences, to be stripped
      <<HANGUL>>,                  \* Korean
      <<LATIN, DIGIT>>,            \* Latin letters and digits only
      <<QUOTE, DIGIT, DOT>> }      \* digits and punctuation only

RECURSIVE SeqsOf(_, _)
SeqsOf(S, n) ==    \* the sequences over S of length 1..n
    IF n = 0 THEN {}
    ELSE LET shorter == SeqsOf(S, n - 1)
         IN  {<<x>> : x \in S} \cup shorter \cup {Append(q, x) : q \in shorter, x \in S}

\* a document: paragraphs separated by a blank line
Documents(n) == {join(<<NL, NL>>, ps) : ps \in SeqsOf(ParaSet, n)}

\* the file name stems of a run, in the order sorted() gives them
SortedStems == << <<DIGIT, DASH, KANA>>, <<KANA>> >>

File(stem, content) == [stem |-> stem, content |-> content]

\* the listings of an input folder: one file of up to MaxParas paragraphs, or two
\* files of one paragraph each
Listings ==
    {<<File(SortedStems[1], d)>> : d \in Documents(MaxParas)}
    \cup {<<File(SortedStems[1], d), File(SortedStems[2], e)>> :
              d \in Documents(1), e \in Documents(1)}

\* what the translator may answer to a paragraph, and to a title
Translation == <<LATIN>>
ParaResults ==
    {Raise, NoneResult, DictMissing, Str(<<>>), Str(<<SP>>),
     Str(<<SP>> \o Translation), Dict(Translation), Dict(<<>>)}
TitleResults == {Raise, Dict(<<LATIN, COLON, SP>>)}

NoFiles == [n \in {} |-> <<>>]
NONE == <<"None">>

\* the language and splitter combinations that differ
Setups ==
    {<<JAPANESE, TRUE>>, <<AUTO, TRUE>>, <<KOREAN, TRUE>>, <<KOREAN, FALSE>>,
     <<ENGLISH, TRUE>>}

InitRun ==
    /\ pc = "main"
    /\ error = "none"
    /\ fidx = 1
    /\ title = NONE
    /\ final_filename = NONE
    /\ return_translated_title = FALSE
    /\ output_path = NONE
    /\ translated_title = NONE
    /\ raw_paragraphs = <<>>
    /\ i = 0
    /\ merged_para = <<>>
    /\ attempt = 0
    /\ result_bound = FALSE
    /\ title_calls = 0
    /\ title_result = NotCalled
    /\ sent = {}
    /\ written = <<>>
    /\ cur_calls = 0
    /\ cur_failed = 0
    /\ print_errors = 0
    /\ sleeps = 0
    /\ prompts = {}
    /\ out_buffer = <<>>

Init ==
    /\ variant \in Variants
    /\ mode \in (IF variant = "backup" THEN {"single"} ELSE {"dir", "single"})
    /\ \E su \in (IF variant = "backup" THEN {<<JAPANESE, TRUE>>} ELSE Setups) :
          src_lang = su[1] /\ splitter_ok = su[2]
    /\ tgt_lang = ENGLISH /\ model = "pentago"
    /\ files \in (IF mode = "dir" THEN Listings ELSE {l \in Listings : Len(l) = 1})
    \* a single-file run may find a TEMP.txt left in the working directory
    /\ fs \in (IF mode = "single" /\ variant # "backup"
               THEN {NoFiles, put(NoFiles, <<TEMP, TXT>>, <<DIGIT>>)} ELSE {NoFiles})
    /\ InitRun

\* ------------------------------------------------------------- actions
setup   == <<variant, mode, src_lang, splitter_ok, tgt_lang, model, files>>
history == <<title_calls, title_result, sent, written, cur_calls, cur_failed,
             print_errors, sleeps>>

stem_of_current == files[fidx].stem
cleaned_para == clean_paragraph(raw_paragraphs[i])
Record(kind, text) == [para |-> i, kind |-> kind, text |-> text]

\* main: the head of the loop over the input files (translate.py 161-163, 171-172;
\* v1.1 203-212, 231-238): the first translate_file call asks for the title only
MainNextFile ==
    /\ pc = "main" /\ variant # "backup"
    /\ IF fidx > Len(files)
       THEN /\ pc' = "done"
            /\ UNCHANGED <<return_translated_title, output_path, title_calls>>
       ELSE /\ pc' = "title"
            /\ return_translated_title' = TRUE
            /\ output_path' = (IF mode = "dir" THEN NONE ELSE <<TEMP, TXT>>)
            /\ title_calls' = 0
    /\ UNCHANGED <<setup, prompts, out_buffer, fs, error, fidx, title, final_filename, translated_title,
                   raw_paragraphs, i, merged_para, attempt, result_bound,
                   title_result, sent, written, cur_calls, cur_failed, print_errors,
                   sleeps>>

\* translate_file: title resolution (translate.py 82-96, v1.1 106-124)
TitleCall(result) ==
    /\ pc = "title"
    /\ LET title_part == title_part_of(stem_of_current)
           \* v1.1 raises before the call when the title part is blank
           called == ~(variant = "v11" /\ strip(title_part) = <<>>)
           r      == translated_of(result)
           ok     == called /\ ~r.raised /\ strip(r.value) # <<>>
           t      == IF ok THEN r.value ELSE title_fallback(title_part)
       IN  /\ translated_title' = t
           /\ title_calls' = title_calls + (IF called THEN 1 ELSE 0)
           /\ prompts' = prompted(title_part, called)
           /\ IF return_translated_title
              THEN title' = t /\ title_result' = (IF called THEN result ELSE NotCalled) /\ pc' = "main_name"
              ELSE title' = title /\ title_result' = title_result /\ pc' = "read"
    /\ UNCHANGED <<setup, out_buffer, fs, error, fidx, final_filename, return_translated_title,
                   output_path, raw_paragraphs, i, merged_para, attempt, result_bound,
                   sent, written, cur_calls, cur_failed, print_errors, sleeps>>

\* main: the output name (translate.py 164-168, 173-176; v1.1 214-226, 240-244);
\* directory mode then calls translate_file again, for the translation
MainName ==
    /\ pc = "main_name"
    /\ final_filename' = final_filename_of(stem_of_current, title)
    /\ IF mode = "dir"
       THEN /\ return_translated_title' = FALSE
            /\ output_path' = final_filename'
            /\ pc' = "title"
       ELSE /\ pc' = "rename"
            /\ UNCHANGED <<return_translated_title, output_path>>
    /\ UNCHANGED <<setup, prompts, out_buffer, fs, error, fidx, title, translated_title, raw_paragraphs, i,
                   merged_para, attempt, result_bound, history>>

\* main, single-file mode: os.rename("TEMP.txt", final_path) (translate.py 177-178)
MainRename ==
    /\ pc = "rename"
    /\ IF <<TEMP, TXT>> \in DOMAIN fs
       THEN /\ fs' = [n \in ((DOMAIN fs) \ {<<TEMP, TXT>>}) \cup {final_filename} |->
                        IF n = final_filename THEN fs[<<TEMP, TXT>>] ELSE fs[n]]
            /\ pc' = "done"
            /\ error' = error
       ELSE /\ pc' = "aborted"
            /\ error' = "FileNotFoundError"
            /\ fs' = fs
    /\ UNCHANGED <<setup, prompts, out_buffer, fidx, title, final_filename, return_translated_title,
                   output_path, translated_title, raw_paragraphs, i, merged_para,
                   attempt, result_bound, history>>

\* the sentences of every meaningful paragraph, for the preview file; Raised when
\* the splitter raises on one of them
\* the one element of a singleton: binds a value that is used more than once
the(S) == CHOOSE v \in S : TRUE

\* the preview lines of one meaningful paragraph, followed by those of the rest
prep_paragraph(cleaned, rest) ==
    the({IF sp.raised \/ rest.raised THEN Raised
         ELSE Returned(prep_lines(sp.value) \o rest.value) :
            sp \in {split_text_by_sentence(cleaned, src_lang)}})

RECURSIVE prep_content(_)
prep_content(paras) ==
    IF paras = <<>> THEN Returned(<<>>)
    ELSE the({IF ~is_meaningful(cleaned) THEN rest ELSE prep_paragraph(cleaned, rest) :
                cleaned \in {clean_paragraph(Head(paras))},
                rest \in {prep_content(Tail(paras))}})

\* translate_file: read the input and write the preview file (translate.py 98-109,
\* v1.1 127-141)
ReadAndPrepare ==
    /\ pc = "read" /\ variant # "backup"
    /\ \E paras \in {paragraphs_of(files[fidx].content)},
          prep_path \in {replace(output_path, TXT, <<PRETXT>>)} :
        \E prep \in {prep_content(paras)} :
           /\ raw_paragraphs' = paras
           /\ translated_title' = NONE    \* not read after line 96: dropped here
           /\ IF prep.raised
              THEN \* the exception leaves translate_file and main; the first
                   \* meaningful paragraph raised, so the preview file is empty
                   /\ fs' = put(fs, prep_path, <<>>)
                   /\ pc' = "aborted"
                   /\ error' = "SplitterError"
              ELSE /\ fs' = put(fs, prep_path, prep.value)
                   /\ pc' = "open"
                   /\ error' = error
    /\ UNCHANGED <<setup, prompts, out_buffer, fidx, title, final_filename, return_translated_title,
                   output_path, i, merged_para, attempt, result_bound, history>>

\* translate_file: open(output_path, "w") (translate.py 112, v1.1 145)
OpenOutput ==
    /\ pc = "open"
    /\ fs' = put(fs, output_path, <<>>)
    /\ out_buffer' = <<>>
    /\ written' = <<>>
    /\ cur_calls' = 0 /\ cur_failed' = 0 /\ sleeps' = 0
    /\ i' = 1
    /\ pc' = "loop"
    /\ UNCHANGED <<setup, prompts, error, fidx, title, final_filename, return_translated_title,
                   output_path, translated_title, raw_paragraphs, merged_para, attempt,
                   result_bound, title_calls, title_result, sent, print_errors>>

\* translate_file: the head of the paragraph loop (translate.py 113-121,
\* v1.1 146-157; backup 63)
LoopHead ==
    /\ pc = "loop"
    /\ IF i > Len(raw_paragraphs)
       THEN /\ pc' = (IF variant = "backup" THEN "done" ELSE "saved")
            /\ out_buffer' = <<>>      \* the with block ends: out is closed
            /\ UNCHANGED <<i, merged_para, attempt, cur_calls, cur_failed, sleeps>>
       ELSE IF variant # "backup" /\ ~is_meaningful(cleaned_para)
       THEN /\ i' = i + 1           \* continue
            /\ pc' = "loop"
            /\ UNCHANGED <<merged_para, attempt, cur_calls, cur_failed, sleeps, out_buffer>>
       ELSE /\ \E cleaned \in {cleaned_para} :
               \E split_sentences \in {split_text_by_sentence(cleaned, src_lang).value} :
                 merged_para' = (IF variant = "backup" THEN raw_paragraphs[i]
                                 ELSE merge_sentences(split_sentences))
            /\ attempt' = 0
            /\ cur_calls' = 0 /\ cur_failed' = 0 /\ sleeps' = 0
            /\ pc' = "call"
            /\ i' = i
            /\ out_buffer' = out_buffer
    /\ UNCHANGED <<setup, prompts, fs, error, fidx, title, final_filename,
                   return_translated_title, output_path, translated_title,
                   raw_paragraphs, result_bound, title_calls, title_result, sent,
                   written, print_errors>>

Attempts == 3    \* range(3), while attempt < 3

\* the except branch of the paragraph loop (translate.py 130-136, v1.1 167-174,
\* backup 73-77); `bound` says whether backup's local `result` is assigned
HandleFailure(bound) ==
    IF variant = "translate" THEN
        IF attempt < 2
        THEN /\ pc' = "sleep"
             /\ UNCHANGED <<attempt, i, fs, written, error, out_buffer>>
        ELSE /\ fs' = put(fs, output_path,
                          appended(fs[output_path], failure_block(cleaned_para)))
             /\ written' = Append(written, Record("failure", failure_block(cleaned_para)))
             /\ out_buffer' = buffered(out_buffer, failure_block(cleaned_para))
             /\ pc' = "loop"
             /\ i' = i + 1
             /\ UNCHANGED <<attempt, error>>
    ELSE IF variant = "v11" THEN
        /\ attempt' = attempt + 1
        /\ IF attempt + 1 < 3
           THEN /\ pc' = "sleep"
                /\ UNCHANGED <<i, fs, written, error, out_buffer>>
           ELSE /\ fs' = put(fs, output_path,
                             appended(fs[output_path], failure_block(cleaned_para)))
                /\ written' = Append(written, Record("failure", failure_block(cleaned_para)))
                /\ out_buffer' = buffered(out_buffer, failure_block(cleaned_para))
                /\ pc' = "loop"
                /\ i' = i + 1
                /\ error' = error
    ELSE
        \* backup: two writes, then print(f"[DEBUG] result: {result}")
        /\ fs' = put(fs, output_path,
                     appended(appended(fs[output_path], <<MARKER, NL>>),
                              raw_paragraphs[i] \o <<NL, NL>>))
        /\ written' = written \o <<Record("failure", <<MARKER, NL>>),
                                   Record("failure", raw_paragraphs[i] \o <<NL, NL>>)>>
        /\ attempt' = attempt
        /\ IF bound
           THEN /\ pc' = "loop" /\ i' = i + 1 /\ error' = error
                /\ out_buffer' = buffered(buffered(out_buffer, <<MARKER, NL>>),
                                           raw_paragraphs[i] \o <<NL, NL>>)
           ELSE \* the exception leaves the with block: out is closed
                /\ pc' = "aborted" /\ i' = i /\ error' = "UnboundLocalError"
                /\ out_buffer' = <<>>

\* one pass through the try body up to and including out.write (translate.py
\* 122-127, v1.1 158-164, backup 64-70), or into the except branch
Attempt(result) ==
    /\ pc = "call"
    /\ sent' = sent \cup {[file |-> fidx, para |-> i, text |-> merged_para,
                           cleaned |-> (IF variant = "backup" THEN raw_paragraphs[i]
                                        ELSE cleaned_para)]}
    /\ cur_calls' = cur_calls + 1
    /\ prompts' = prompted(merged_para, TRUE)
    /\ LET r      == IF variant = "backup" THEN backup_translated_of(result)
                     ELSE translated_of(result)
           \* translate.py, v1.1: if not translated: raise ValueError
           failed == r.raised \/ (variant # "backup" /\ r.value = <<>>)
           bound  == result_bound \/ result.kind # "raise"
       IN  /\ cur_failed' = cur_failed + (IF failed THEN 1 ELSE 0)
           /\ result_bound' = bound
           /\ IF ~failed
              THEN /\ fs' = put(fs, output_path,
                                appended(fs[output_path], translation_block(r.value)))
                   /\ written' = Append(written,
                                        Record("translation", translation_block(r.value)))
                   /\ out_buffer' = buffered(out_buffer, translation_block(r.value))
                   /\ pc' = "print"
                   /\ UNCHANGED <<attempt, i, error>>
              ELSE HandleFailure(bound)
    /\ UNCHANGED <<setup, fidx, title, final_filename, return_translated_title,
                   output_path, translated_title, raw_paragraphs, merged_para,
                   title_calls, title_result, print_errors, sleeps>>

\* the print after out.write succeeds (translate.py 128-129, v1.1 165-166,
\* backup 71): the paragraph is done
PrintOk ==
    /\ pc = "print"
    /\ i' = i + 1
    /\ pc' = "loop"
    /\ UNCHANGED <<setup, prompts, out_buffer, fs, error, fidx, title, final_filename,
                   return_translated_title, output_path, translated_title,
                   raw_paragraphs, merged_para, attempt, result_bound, history>>

\* the print after out.write raises (an OSError of a full or closed stdout): the
\* except branch of the same try takes it
PrintRaise ==
    /\ pc = "print"
    /\ print_errors < MaxPrintErrors
    /\ print_errors' = print_errors + 1
    /\ HandleFailure(TRUE)
    /\ UNCHANGED <<setup, prompts, fidx, title, final_filename, return_translated_title,
                   output_path, translated_title, raw_paragraphs, merged_para,
                   result_bound, title_calls, title_result, sent, cur_calls,
                   cur_failed, sleeps>>

\* await asyncio.sleep(0.5), then the next pass (translate.py 133, v1.1 171)
Sleep ==
    /\ pc = "sleep"
    /\ sleeps' = sleeps + 1
    /\ attempt' = (IF variant = "translate" THEN attempt + 1 ELSE attempt)
    /\ attempt' < Attempts
    /\ pc' = "call"
    /\ UNCHANGED <<setup, prompts, out_buffer, fs, error, fidx, title, final_filename,
                   return_translated_title, output_path, translated_title,
                   raw_paragraphs, i, merged_para, result_bound, title_calls,
                   title_result, sent, written, cur_calls, cur_failed, print_errors>>

\* main, directory mode: the file is saved, on to the next (translate.py 169)
MainSaved ==
    /\ pc = "saved"
    /\ fidx' = fidx + 1
    /\ pc' = "main"
    /\ UNCHANGED <<setup, prompts, out_buffer, fs, error, title, final_filename, return_translated_title,
                   output_path, translated_title, raw_paragraphs, i, merged_para,
                   attempt, result_bound, history>>

\* backup main (backup 88-98): the output is <basename>.<target>.txt
BackupMain ==
    /\ pc = "main" /\ variant = "backup"
    /\ output_path' = stem_of_current \o <<TGT, TXT>>
    /\ pc' = "read"
    /\ UNCHANGED <<setup, prompts, out_buffer, fs, error, fidx, title, final_filename,
                   return_translated_title, translated_title, raw_paragraphs, i,
                   merged_para, attempt, result_bound, history>>

RECURSIVE cleaned_meaningful(_)
cleaned_meaningful(paras) ==
    IF paras = <<>> THEN <<>>
    ELSE (IF is_meaningful(clean_paragraph(Head(paras)))
          THEN <<clean_paragraph(Head(paras))>> ELSE <<>>)
         \o cleaned_meaningful(Tail(paras))

\* backup translate_file: read, clean, filter, open the output (backup 56-62)
BackupRead ==
    /\ pc = "read" /\ variant = "backup"
    /\ raw_paragraphs' = cleaned_meaningful(paragraphs_of(files[fidx].content))
    /\ fs' = put(fs, output_path, <<>>)
    /\ out_buffer' = <<>>
    /\ written' = <<>>
    /\ i' = 1
    /\ pc' = "loop"
    /\ UNCHANGED <<setup, prompts, error, fidx, title, final_filename, return_translated_title,
                   output_path, translated_title, merged_para, attempt, result_bound,
                   title_calls, title_result, sent, cur_calls, cur_failed,
                   print_errors, sleeps>>

Next ==
    \/ MainNextFile
    \/ \E result \in TitleResults : TitleCall(result)
    \/ MainName
    \/ MainRename
    \/ ReadAndPrepare
    \/ OpenOutput
    \/ LoopHead
    \/ \E result \in ParaResults : Attempt(result)
    \/ PrintOk
    \/ PrintRaise
    \/ Sleep
    \/ MainSaved
    \/ BackupMain
    \/ BackupRead

Spec == Init /\ [][Next]_vars

\* ======================================================================
\* The claims
\* ======================================================================
\* the out.write calls made for paragraph k of the current file
WritesOf(k) == SelectSeq(written, LAMBDA w : w.para = k)

RECURSIVE TextsOf(_)
TextsOf(ws) == IF ws = <<>> THEN <<>> ELSE Head(ws).text \o TextsOf(Tail(ws))

\* the paragraph loop of the current file is running, or has just ended
InLoop   == pc \in {"loop", "call", "print", "sleep"}
FileDone == \/ variant # "backup" /\ pc = "saved"
            \/ variant = "backup" /\ pc = "done"

\* the blocks of an output file: its pieces between blank lines that hold text
BlockCount(content) == Len(NonBlank(paragraphs_of(content)))

\* C1: when all three translator calls of a paragraph raised or returned nothing
\* usable, the one thing written for the paragraph is the marker line, the cleaned
\* paragraph (not the merged text) untruncated, and a blank line; the output file
\* ends with it.
C1_FailureBlockIsMarkerAndCleanedText ==
    (variant # "backup" /\ pc \in {"loop", "saved"} /\ cur_failed = Attempts) =>
        /\ written # <<>>
        /\ LET k     == written[Len(written)].para
               block == <<MARKER, NL>> \o clean_paragraph(raw_paragraphs[k]) \o <<NL, NL>>
               out   == fs[output_path]
           IN  /\ WritesOf(k) = << [para |-> k, kind |-> "failure", text |-> block] >>
               /\ Len(out) >= Len(block)
               /\ SubSeq(out, Len(out) - Len(block) + 1, Len(out)) = block

\* C1 witness: three failed calls on a paragraph whose merged text differs from
\* its cleaned text, and the failure block written
C1_Witness ==
    /\ variant = "translate" /\ pc = "loop" /\ cur_failed = Attempts /\ cur_calls = Attempts
    /\ written # <<>>
    /\ written[Len(written)].kind = "failure"
    /\ merged_para # clean_paragraph(raw_paragraphs[written[Len(written)].para])

\* the cleaned paragraphs of the current file that pass is_meaningful
MeaningfulCount ==
    IF variant = "backup" THEN Len(raw_paragraphs)
    ELSE Len(SelectSeq(raw_paragraphs, LAMBDA para : is_meaningful(clean_paragraph(para))))

\* C2: when translate_file has gone through a file, the output file holds as many
\* blocks as the file has cleaned paragraphs that pass is_meaningful.
C2_BlocksEqualMeaningfulParagraphs ==
    FileDone => BlockCount(fs[output_path]) = MeaningfulCount

\* C3: every paragraph the loop has dealt with has exactly one write in the
\* output, a translation or a failure block, whatever was raised in the try body.
C3_OneBlockPerParagraph ==
    (variant # "backup" /\ (InLoop \/ FileDone)) =>
        \A k \in 1..Len(raw_paragraphs) :
            (k < i /\ is_meaningful(clean_paragraph(raw_paragraphs[k])))
                => Len(WritesOf(k)) = 1

\* C4: the writes are made in the order of the input paragraphs, and the output
\* file is their concatenation in that order: the block of an earlier paragraph
\* precedes the block of a later one, however many passes each took.
C4_OutputInInputOrder ==
    (InLoop \/ FileDone) =>
        /\ \A a, b \in 1..Len(written) : a < b => written[a].para <= written[b].para
        /\ fs[output_path] = TextsOf(written)

\* C4 witness: a paragraph that used all its attempts and failed, followed in the
\* output by the translation of a later paragraph
C4_Witness ==
    /\ InLoop
    /\ \E a, b \in 1..Len(written) :
          /\ a < b /\ written[a].para < written[b].para
          /\ written[a].kind = "failure" /\ written[b].kind = "translation"

\* C5: a translator call that raises or returns nothing usable never ends the
\* run: no run is aborted with a failed call on its current paragraph.
C5_TranslationErrorNeverAborts ==
    ~(pc = "aborted" /\ cur_failed > 0)

\* the cleaned paragraphs of input file f that pass is_meaningful, by index
MeaningfulIn(f) ==
    LET paras == paragraphs_of(files[f].content)
    IN  {k \in 1..Len(paras) : is_meaningful(clean_paragraph(paras[k]))}

\* C6: a single-file run ends normally, having sent every meaningful paragraph
\* of the file to the translator, with an output file of the computed name
\* holding one block per meaningful paragraph.
C6_SingleFileModeTranslates ==
    (mode = "single" /\ variant # "backup" /\ pc \in {"done", "aborted"}) =>
        /\ pc = "done"
        /\ final_filename \in DOMAIN fs
        /\ \A k \in MeaningfulIn(1) : \E c \in sent : c.file = 1 /\ c.para = k
        /\ BlockCount(fs[final_filename]) = Cardinality(MeaningfulIn(1))

\* C9: when a file has been processed, the translator has received exactly one
\* title translation call for it.
C9_TitleTranslatedOncePerFile ==
    (variant # "backup" /\ pc = "saved") => title_calls = 1

\* the script classes the claim requires of a paragraph, by source language
RequiredScript == IF src_lang = JAPANESE THEN {KANA} ELSE {HANGUL}

\* C10 as claimed: in a Japanese or Korean run, a paragraph sent to the
\* translator or written holds a character of the source language's script.
C10_OffScriptParagraphsDiscarded ==
    (src_lang \in {JAPANESE, KOREAN}) =>
        \A c \in sent : \E k \in 1..Len(c.cleaned) : c.cleaned[k] \in RequiredScript

\* the characters that make a paragraph pass, whatever the source language:
\* [ぁ-んァ-ン一-龯가-힣], and [a-zA-Z] too in translate.py
PassingChars == {KANA, HANGUL} \cup (IF variant = "translate" THEN {LATIN} ELSE {})

\* C10 as amended: a cleaned paragraph with no character of PassingChars is never
\* sent to the translator and has no write in the output, in every language.
C10_ScriptlessParagraphsDiscarded ==
    /\ \A c \in sent : \E k \in 1..Len(c.cleaned) : c.cleaned[k] \in PassingChars
    /\ (variant # "backup" /\ (InLoop \/ FileDone)) =>
          \A w \in 1..Len(written) :
              LET p == clean_paragraph(raw_paragraphs[written[w].para])
              IN  \E k \in 1..Len(p) : p[k] \in PassingChars

\* C10 witness: a file whose first paragraph holds digits and punctuation only
\* has been gone through, its second paragraph translated, the first never sent
C10_Witness ==
    /\ variant # "backup" /\ pc = "saved" /\ Len(raw_paragraphs) = 2
    /\ clean_paragraph(raw_paragraphs[1]) = <<QUOTE, DIGIT, DOT>>
    /\ \E w \in 1..Len(written) : written[w].para = 2
    /\ \A c \in sent : c.para # 1

\* ----------------------------------------------- title resolution alone
MaxStemLen == 3     \* characters in an input file name stem

StemChars == {DIGIT, DASH, KANA, SP, COLON}

TitleResultsAll ==
    {Raise, NoneResult, DictMissing, Str(<<>>), Str(<<SP>>), Str(Translation),
     Str(<<SP>> \o Translation), Dict(<<LATIN, COLON, SP>>), Dict(<<COLON>>)}

\* one input file of any stem, up to the point its output name is known
InitTitle ==
    /\ variant \in {"translate", "v11"}
    /\ mode \in {"dir", "single"}
    /\ src_lang = JAPANESE /\ splitter_ok = TRUE
    /\ tgt_lang = ENGLISH /\ model = "pentago"
    /\ files \in {<<File(stem, <<KANA>>)>> : stem \in SeqsOf(StemChars, MaxStemLen)}
    /\ fs = NoFiles
    /\ InitRun

NextTitle ==
    \/ MainNextFile
    \/ \E result \in TitleResultsAll : TitleCall(result)
    \/ MainName

SpecTitle == InitTitle /\ [][NextTitle]_vars

\* the title call raised, or came back empty, blank or malformed
TitleCallFailed ==
    \/ title_result.kind \in {"raise", "none", "dict_missing"}
    \/ title_result.kind \in {"str", "dict"} /\ strip(title_result.text) = <<>>

FirstDash(stem) == CHOOSE k \in 1..Len(stem) :
                        stem[k] = DASH /\ \A j \in 1..(k - 1) : stem[j] # DASH

\* what follows the first "-" of the stem, or the whole stem when it has none
PostPrefixSegment(stem) ==
    IF Contains(stem, DASH) THEN SubSeq(stem, FirstDash(stem) + 1, Len(stem)) ELSE stem

\* what precedes the first "-" of the stem, or "0000" when it has none
PrefixSegment(stem) ==
    IF Contains(stem, DASH) THEN SubSeq(stem, 1, FirstDash(stem) - 1)
    ELSE <<DIGIT, DIGIT, DIGIT, DIGIT>>

RemoveIllegal(t) == SelectSeq(t, LAMBDA c : c \notin IllegalChars)

C8_OutputNameAsClaimed ==
    (final_filename # NONE) =>
        final_filename = PrefixSegment(stem_of_current) \o <<DASH>>
                         \o RemoveIllegal(title) \o <<TXT>>

\* C8 as amended: the title has the illegal characters removed and is then
\* stripped of leading and trailing whitespace.
C8_OutputNameStripped ==
    (final_filename # NONE) =>
        final_filename = PrefixSegment(stem_of_current) \o <<DASH>>
                         \o strip(RemoveIllegal(title)) \o <<TXT>>

\* C8 witness: a name made from a stem with a prefix and a title that holds an
\* illegal character and ends in whitespace
C8_Witness ==
    /\ final_filename # NONE
    /\ Contains(stem_of_current, DASH) /\ stem_of_current[1] = DIGIT
    /\ Contains(title, COLON) /\ title[Len(title)] = SP

\* ------------------------------------------------------ splitter failure
\* the language-specific splitter of this run is unavailable or raises: kss or
\* nltk missing, or (translate.py) the name nltk never bound
SplitterFails ==
    \/ src_lang \in {KOREAN, ENGLISH} /\ ~splitter_ok
    \/ variant = "translate" /\ src_lang = ENGLISH

\* C11: a splitter that is unavailable or raises never ends the run: the
\* paragraph is sent whole, as the single unit split_text_by_sentence returned.
C11_SplitterFailureFallsBack ==
    /\ error # "SplitterError"
    /\ (variant # "backup" /\ SplitterFails /\ pc = "call") => merged_para = cleaned_para

\* --------------------------------------------------- the vllm backend
LangPairs == {<<JAPANESE, ENGLISH>>, <<KOREAN, ENGLISH>>, <<JAPANESE, KOREAN>>,
              <<ENGLISH, JAPANESE>>}

\* VLLMTranslator.translate returns a stripped string or raises
VllmResults == {Raise, Str(<<>>), Str(Translation)}

\* a v1.1 run with --model vllm on one input file
InitVllm ==
    /\ variant = "v11" /\ model = "vllm"
    /\ mode \in {"dir", "single"}
    /\ \E lp \in LangPairs : src_lang = lp[1] /\ tgt_lang = lp[2]
    /\ splitter_ok = TRUE
    /\ files \in {l \in Listings : Len(l) = 1}
    /\ fs = NoFiles
    /\ InitRun

NextVllm ==
    \/ MainNextFile
    \/ \E result \in VllmResults : TitleCall(result)
    \/ MainName
    \/ MainRename
    \/ ReadAndPrepare
    \/ OpenOutput
    \/ LoopHead
    \/ \E result \in VllmResults : Attempt(result)
    \/ PrintOk
    \/ PrintRaise
    \/ Sleep
    \/ MainSaved

SpecVllm == InitVllm /\ [][NextVllm]_vars

Elements(s) == {s[k] : k \in 1..Len(s)}

Embeds(s, text) ==
    \E k \in 1..(Len(s) - Len(text) + 1) : SubSeq(s, k, k + Len(text) - 1) = text

\* C12: every prompt of a vllm run names the run's source and target languages
\* and holds the text to translate.
C12_PromptFollowsLanguagePair ==
    \A p \in prompts :
        /\ upper(src_lang) \in Elements(p.prompt)
        /\ upper(tgt_lang) \in Elements(p.prompt)
        /\ Embeds(p.prompt, p.text)

\* ---------------------------------------------------------- retry budget
\* the paragraphs of the current file the loop has left behind had a call each
EarlierParagraphsCalled ==
    \A k \in 1..Len(raw_paragraphs) :
        (k < i /\ is_meaningful(clean_paragraph(raw_paragraphs[k])))
            => \E s \in sent : s.file = fidx /\ s.para = k

\* C13: a meaningful paragraph gets between one and three translator calls, none
\* after a call returned a non-empty result; its attempt count starts at zero
\* whatever earlier paragraphs used; the delay is taken once after each failed
\* call that has a call left, never after the third.
C13_RetryBudget ==
    (variant # "backup" /\ InLoop) =>
        /\ cur_calls <= Attempts
        /\ EarlierParagraphsCalled
        /\ pc = "print" => cur_calls >= 1
        /\ pc \in {"call", "sleep"} => cur_failed = cur_calls
        /\ pc = "call" => (attempt = cur_calls /\ sleeps = cur_failed)
        /\ pc = "sleep" => (cur_calls < Attempts /\ sleeps = cur_failed - 1)
        /\ sleeps <= Attempts - 1

\* ------------------------------------------------- termination of a file
\* a directory run of translate.py or v1.1: every step that can be taken is taken
\* (one thread of control, every translator call returns or raises)
InitLive ==
    /\ variant \in {"translate", "v11"}
    /\ mode = "dir"
    /\ \E su \in Setups : src_lang = su[1] /\ splitter_ok = su[2]
    /\ tgt_lang = ENGLISH /\ model = "pentago"
    /\ files \in Listings
    /\ fs = NoFiles
    /\ InitRun

NextLive ==
    \/ MainNextFile
    \/ \E result \in TitleResults : TitleCall(result)
    \/ MainName
    \/ ReadAndPrepare
    \/ OpenOutput
    \/ LoopHead
    \/ \E result \in ParaResults : Attempt(result)
    \/ PrintOk
    \/ PrintRaise
    \/ Sleep
    \/ MainSaved

SpecLive == InitLive /\ [][NextLive]_vars /\ WF_vars(NextLive)

\* the paragraph under translation (attempt 1..3) has not been written, and no
\* paragraph has been written twice: a terminal paragraph stays terminal
TerminalIsFinal ==
    /\ pc \in {"call", "sleep"} => WritesOf(i) = <<>>
    /\ \A k \in 1..Len(raw_paragraphs) : Len(WritesOf(k)) <= 1

\* every meaningful paragraph of the current file is written-success or
\* written-failure
AllTerminal ==
    \A k \in 1..Len(raw_paragraphs) :
        is_meaningful(clean_paragraph(raw_paragraphs[k]))
            => (Len(WritesOf(k)) = 1 /\ WritesOf(k)[1].kind \in {"translation", "failure"})

\* C14: a paragraph goes pending, segmented, translating, then to one terminal
\* state, after which it is neither translated nor written again, and the
\* processing of every file ends with all its meaningful paragraphs terminal.
C14_ParagraphsReachOneTerminalState ==
    /\ [](InLoop => TerminalIsFinal)
    /\ (pc = "read") ~> (pc = "saved" /\ AllTerminal)

\* ------------------------------------------------------- partial output
\* what a process terminated now leaves in the output file
OnDisk ==
    SubSeq(fs[output_path], 1, Len(fs[output_path]) - Len(out_buffer))

\* the blocks of the paragraphs the loop is done with, in input order
TerminalBlocks == TextsOf(SelectSeq(written, LAMBDA w : w.para < i))

\* C15: between paragraphs and during the attempts of one, the output file holds
\* exactly the blocks of the paragraphs already written-success or
\* written-failure, in input order.
C15_PartialOutputIsTerminalBlocks ==
    (pc \in {"loop", "call", "sleep"}) => OnDisk = TerminalBlocks

====
